---- MODULE Spec2Model ----
(***************************************************************************)
(* Cart -> order -> payment core of the shopping mall.                     *)
(*                                                                         *)
(* Every server action is a sequence of awaited store / gateway round      *)
(* trips.  Each round trip (together with the local computation up to the  *)
(* next await or return) is one atomic step of the worker that serves the  *)
(* request; workers interleave freely, the store is the only shared state. *)
(***************************************************************************)
EXTENDS Integers, Sequences, FiniteSets, TLC

(***************************************************************************)
(* Bounds                                                                  *)
(***************************************************************************)
MaxOps == 4
MaxLifecycleOps == 5
MaxCheckoutOps == 5
MaxRaceOps == 4
MaxAccessOps == 4
MaxCartOps == 4
MaxOrderRaceOps == 4
MaxBuildRaceOps == 3
MaxFrameOps == 4
MaxOrders == 2
MaxCartRows == 2
MaxCatalogChanges == 2
MaxGatewayCalls == 2
MaxQty == 2
MaxStock == 2

Procs == {1, 2}
Users == {"u1", "u2"}
NoUser == "anonymous"
Products == {"P1", "P2"}
Prices == {1, 2}
Names == {"nameA", "nameB"}
Addresses == {"addr1"}
Notes == {"memo"}
PaymentKeys == {"k1", "k2"}
GatewayMethods == {"transfer", "unknown"}
OrderStatuses == {"pending", "confirmed", "shipped", "delivered", "cancelled"}
BadOrderId == 0

Null == "null"

VARIABLES
    accounts,        \* identity provider: the users that can sign in
    products,        \* products table: product id -> row
    catalogChanges,  \* number of catalog edits made so far
    cart_items,      \* cart_items table: set of rows
    nextCartId,      \* next cart_items.id (ids grow with created_at)
    orders,          \* orders table: sequence of rows, index = id
    order_items,     \* order_items table: set of rows
    gatewayCalls,    \* number of requests sent to the payment gateway
    gatewayResponse, \* what the gateway answered to the last request sent to it
    opsLeft,         \* remaining requests the workers may accept
    pc,              \* per worker: the await the request is suspended at
    op,              \* per worker: the server action being served
    userId,          \* per worker: auth().userId of the request
    arg,             \* per worker: arguments of the server action
    loc,             \* per worker: local variables of the server action
    result           \* per worker: value returned by the server action

store == <<accounts, products, catalogChanges, cart_items, nextCartId, orders,
          order_items, gatewayCalls, gatewayResponse>>
worker == <<pc, op, userId, arg, loc, result>>
vars == <<accounts, products, catalogChanges, cart_items, nextCartId, orders, order_items,
          gatewayCalls, gatewayResponse, opsLeft, pc, op, userId, arg, loc, result>>

NoArg == [productId |-> Null, quantity |-> 0, orderId |-> BadOrderId,
          cartItemId |-> 0, cartItemIds |-> {},
          status |-> Null, paymentKey |-> Null, amount |-> 0,
          shippingAddress |-> Null, orderNote |-> Null]

NoLoc == [product |-> {}, existingCartItem |-> {}, cartItems |-> <<>>,
          totalAmount |-> 0, orderId |-> BadOrderId, order |-> {},
          paymentData |-> {}]

NoResult == [success |-> FALSE, kind |-> Null, orderId |-> BadOrderId,
             product |-> Null, reason |-> Null]

Fail(kind) == [NoResult EXCEPT !.kind = kind]
Ok(kind) == [NoResult EXCEPT !.success = TRUE, !.kind = kind]

(***************************************************************************)
(* Initial state: empty cart / order tables, a populated catalog.          *)
(***************************************************************************)
InitWith(users, listed, budget) ==
    /\ accounts = users
    /\ products = [x \in listed |->
                     [name |-> IF x = "P1" THEN "nameA" ELSE "nameB",
                      price |-> IF x = "P1" THEN 2 ELSE 1,
                      stock_quantity |-> MaxStock,
                      is_active |-> TRUE]]
    /\ catalogChanges = 0
    /\ cart_items = {}
    /\ nextCartId = 1
    /\ orders = <<>>
    /\ order_items = {}
    /\ gatewayCalls = 0
    /\ gatewayResponse = "none"
    /\ opsLeft = budget
    /\ pc = [p \in Procs |-> "idle"]
    /\ op = [p \in Procs |-> Null]
    /\ userId = [p \in Procs |-> NoUser]
    /\ arg = [p \in Procs |-> NoArg]
    /\ loc = [p \in Procs |-> NoLoc]
    /\ result = [p \in Procs |-> NoResult]

\* one buyer, the whole catalog
Init == InitWith({"u1"}, Products, MaxOps)

\* one buyer, a one-product catalog
InitLifecycle == InitWith({"u1"}, {"P1"}, MaxLifecycleOps)

\* one buyer, the whole catalog, a longer run
InitCheckout == InitWith({"u1"}, Products, MaxCheckoutOps)

\* one buyer with two requests in flight, a one-product catalog
InitCartRace == InitWith({"u1"}, {"P1"}, MaxRaceOps)

\* two buyers, a one-product catalog
InitAccess == InitWith(Users, {"P1"}, MaxAccessOps)

\* one buyer with two order requests in flight, a one-product catalog
InitOrderRace == InitWith({"u1"}, {"P1"}, MaxOrderRaceOps)

\* one buyer with two checkout requests in flight, a one-product catalog
InitBuildRace == InitWith({"u1"}, {"P1"}, MaxBuildRaceOps)

\* one buyer and every request there is, a one-product catalog
InitFrame == InitWith({"u1"}, {"P1"}, MaxFrameOps)

\* two buyers and their carts, a one-product catalog
InitCart == InitWith(Users, {"P1"}, MaxCartOps)

(***************************************************************************)
(* Worker plumbing                                                         *)
(***************************************************************************)
\* A free worker accepts a request: binds the session user (auth()) and the
\* arguments.  The previous response of the worker is dropped.
Accept(p, name) ==
    /\ pc[p] = "idle"
    /\ opsLeft > 0
    /\ opsLeft' = opsLeft - 1
    /\ op' = [op EXCEPT ![p] = name]
    /\ UNCHANGED store

\* ... and suspends at its first store round trip.
Start(p, next, u, a) ==
    /\ pc' = [pc EXCEPT ![p] = next]
    /\ userId' = [userId EXCEPT ![p] = u]
    /\ arg' = [arg EXCEPT ![p] = a]
    /\ result' = [result EXCEPT ![p] = NoResult]
    /\ UNCHANGED loc

\* The server action returns r to its caller: the request scope (session,
\* arguments, locals) is gone, the worker is free again and only the response
\* stays visible.
Return(p, r) ==
    /\ pc' = [pc EXCEPT ![p] = "idle"]
    /\ result' = [result EXCEPT ![p] = r]
    /\ userId' = [userId EXCEPT ![p] = NoUser]
    /\ arg' = [arg EXCEPT ![p] = NoArg]
    /\ loc' = [loc EXCEPT ![p] = NoLoc]

\* The server action suspends at its next await, with locals l.
Goto(p, next, l) ==
    /\ pc' = [pc EXCEPT ![p] = next]
    /\ loc' = [loc EXCEPT ![p] = l]
    /\ UNCHANGED <<userId, arg, result>>

(***************************************************************************)
(* Catalog (external collaborator): an administrator edits a product row.  *)
(***************************************************************************)
CatalogChange(x, row) ==
    /\ catalogChanges < MaxCatalogChanges
    /\ opsLeft > 0
    /\ opsLeft' = opsLeft - 1
    /\ row # products[x]
    /\ products' = [products EXCEPT ![x] = row]
    /\ catalogChanges' = catalogChanges + 1
    /\ UNCHANGED <<accounts, cart_items, nextCartId, orders, order_items,
                   gatewayCalls, gatewayResponse, worker>>

SetPrice(x) ==
    \E v \in Prices : CatalogChange(x, [products[x] EXCEPT !.price = v])

SetStock(x) ==
    \E v \in 0..MaxStock : CatalogChange(x, [products[x] EXCEPT !.stock_quantity = v])

SetActive(x) ==
    \E b \in BOOLEAN : CatalogChange(x, [products[x] EXCEPT !.is_active = b])

Rename(x) ==
    \E n \in Names : CatalogChange(x, [products[x] EXCEPT !.name = n])

(***************************************************************************)
(* actions/get-products.ts                                                 *)
(***************************************************************************)
\* getProductById: the active product row, or null ({}).
getProductById(x) ==
    IF products[x].is_active THEN {products[x]} ELSE {}

(***************************************************************************)
(* actions/cart.ts : addToCart                                             *)
(***************************************************************************)
\* auth() and the quantity check
addToCart(p) ==
    \E u \in accounts \cup {NoUser}, x \in DOMAIN products, q \in 0..MaxQty :
        /\ Accept(p, "addToCart")
        /\ IF u = NoUser THEN Return(p, Fail("Unauthenticated"))
           ELSE IF q < 1 THEN Return(p, Fail("InvalidQuantity"))
           ELSE Start(p, "add_getProduct", u,
                      [NoArg EXCEPT !.productId = x, !.quantity = q])

\* await getProductById(productId); first stock check
add_getProduct(p) ==
    /\ pc[p] = "add_getProduct"
    /\ \E storeError \in BOOLEAN :
        /\ LET product == getProductById(arg[p].productId) IN
           IF storeError THEN
               Return(p, Fail("Unexpected"))
           ELSE IF product = {} THEN
               Return(p, Fail("ProductUnavailable"))
           ELSE LET pr == CHOOSE r \in product : TRUE IN
               IF pr.stock_quantity < arg[p].quantity THEN
                   Return(p, Fail("InsufficientStock"))
               ELSE
                   Goto(p, "add_fetch", [loc[p] EXCEPT !.product = product])
    /\ UNCHANGED <<store, opsLeft, op>>

\* .single() on a filter: the row when exactly one matches, else PGRST116.
Single(rows) == IF Cardinality(rows) = 1 THEN rows ELSE {}

\* select existing cart row; combined-quantity stock check
add_fetch(p) ==
    /\ pc[p] = "add_fetch"
    /\ \E storeError \in BOOLEAN :
        /\ LET existing == Single({r \in cart_items :
                                     /\ r.clerk_id = userId[p]
                                     /\ r.product_id = arg[p].productId})
               pr == CHOOSE r \in loc[p].product : TRUE
           IN
           IF storeError THEN
               Return(p, Fail("StoreUnavailable"))
           ELSE IF existing # {} THEN
               LET ex == CHOOSE r \in existing : TRUE
                   newQuantity == ex.quantity + arg[p].quantity
               IN
               IF pr.stock_quantity < newQuantity THEN
                   Return(p, Fail("InsufficientStock"))
               ELSE
                   Goto(p, "add_update",
                        [loc[p] EXCEPT !.existingCartItem = existing])
           ELSE
               Goto(p, "add_insert", loc[p])
    /\ UNCHANGED <<store, opsLeft, op>>

\* an update that stores the requested quantity instead of the sum
add_update_Overwrites(p) ==
    /\ pc[p] = "add_update"
    /\ \E storeError \in BOOLEAN :
        /\ LET ex == CHOOSE r \in loc[p].existingCartItem : TRUE IN
           IF storeError THEN
               Return(p, Fail("StoreUnavailable")) /\ UNCHANGED cart_items
           ELSE
               /\ cart_items' = {IF r.id = ex.id
                                   THEN [r EXCEPT !.quantity = arg[p].quantity]
                                   ELSE r : r \in cart_items}
               /\ Return(p, Ok("Added"))
    /\ UNCHANGED <<accounts, products, catalogChanges, nextCartId, orders, order_items,
                   gatewayCalls, gatewayResponse, opsLeft, op>>

\* update({quantity: newQuantity}).eq("id", existingCartItem.id)
add_update(p) ==
    /\ pc[p] = "add_update"
    /\ \E storeError \in BOOLEAN :
        /\ LET ex == CHOOSE r \in loc[p].existingCartItem : TRUE
               newQuantity == ex.quantity + arg[p].quantity
           IN
           IF storeError THEN
               Return(p, Fail("StoreUnavailable")) /\ UNCHANGED cart_items
           ELSE
               /\ cart_items' = {IF r.id = ex.id
                                   THEN [r EXCEPT !.quantity = newQuantity]
                                   ELSE r : r \in cart_items}
               /\ Return(p, Ok("Added"))
    /\ UNCHANGED <<accounts, products, catalogChanges, nextCartId, orders, order_items,
                   gatewayCalls, gatewayResponse, opsLeft, op>>

\* a cart_items table that takes any row
UniqueViolation_Never(u, x) == FALSE

\* cart_items holds one row per (clerk_id, product_id): the store refuses the
\* insert of a second one
UniqueViolation(u, x) ==
    \E r \in cart_items : r.clerk_id = u /\ r.product_id = x

\* insert({clerk_id, product_id, quantity})
add_insert(p) ==
    /\ pc[p] = "add_insert"
    /\ \E storeError \in BOOLEAN :
        /\ IF \/ storeError
              \/ nextCartId > MaxCartRows
              \/ UniqueViolation(userId[p], arg[p].productId) THEN
               Return(p, Fail("StoreUnavailable"))
               /\ UNCHANGED <<cart_items, nextCartId>>
           ELSE
               /\ cart_items' = cart_items \cup
                    {[id |-> nextCartId, clerk_id |-> userId[p],
                      product_id |-> arg[p].productId,
                      quantity |-> arg[p].quantity]}
               /\ nextCartId' = nextCartId + 1
               /\ Return(p, Ok("Added"))
    /\ UNCHANGED <<accounts, products, catalogChanges, orders, order_items,
                   gatewayCalls, gatewayResponse, opsLeft, op>>

(***************************************************************************)
(* actions/cart.ts : updateCartItemQuantity                                *)
(***************************************************************************)
\* the ids a request can name: every row the table can hold
CartItemIds == 1..MaxCartRows

\* auth() and the quantity check
updateCartItemQuantity(p) ==
    \E u \in accounts \cup {NoUser}, id \in CartItemIds, q \in 0..MaxQty :
        /\ Accept(p, "updateCartItemQuantity")
        /\ IF u = NoUser THEN Return(p, Fail("Unauthenticated"))
           ELSE IF q < 1 THEN Return(p, Fail("InvalidQuantity"))
           ELSE Start(p, "uq_fetch", u,
                      [NoArg EXCEPT !.cartItemId = id, !.quantity = q])

\* .eq("id", cartItemId).eq("clerk_id", userId).single()
OwnCartItem(u, id) ==
    Single({r \in cart_items : r.id = id /\ r.clerk_id = u})

\* a row lookup that skips the stock check
uq_fetch_StockUnchecked(p) ==
    /\ pc[p] = "uq_fetch"
    /\ \E storeError \in BOOLEAN :
        /\ LET cartItem == OwnCartItem(userId[p], arg[p].cartItemId) IN
           IF storeError \/ cartItem = {} THEN
               Return(p, Fail("NotFound"))
           ELSE LET product == products[(CHOOSE r \in cartItem : TRUE).product_id] IN
               IF ~product.is_active THEN
                   Return(p, Fail("ProductUnavailable"))
               ELSE
                   Goto(p, "uq_update", [loc[p] EXCEPT !.product = {product},
                                                       !.existingCartItem = cartItem])
    /\ UNCHANGED <<store, opsLeft, op>>

\* select the row with its product; purchasable and stock checks
uq_fetch(p) ==
    /\ pc[p] = "uq_fetch"
    /\ \E storeError \in BOOLEAN :
        /\ LET cartItem == OwnCartItem(userId[p], arg[p].cartItemId) IN
           IF storeError \/ cartItem = {} THEN
               Return(p, Fail("NotFound"))
           ELSE LET product == products[(CHOOSE r \in cartItem : TRUE).product_id] IN
               IF ~product.is_active THEN
                   Return(p, Fail("ProductUnavailable"))
               ELSE IF product.stock_quantity < arg[p].quantity THEN
                   Return(p, Fail("InsufficientStock"))
               ELSE
                   Goto(p, "uq_update", [loc[p] EXCEPT !.product = {product},
                                                       !.existingCartItem = cartItem])
    /\ UNCHANGED <<store, opsLeft, op>>

\* update({quantity}).eq("id", cartItemId).eq("clerk_id", userId)
uq_update(p) ==
    /\ pc[p] = "uq_update"
    /\ \E storeError \in BOOLEAN :
        /\ IF storeError THEN
               Return(p, Fail("StoreUnavailable")) /\ UNCHANGED cart_items
           ELSE
               /\ cart_items' = {IF r.id = arg[p].cartItemId /\ r.clerk_id = userId[p]
                                   THEN [r EXCEPT !.quantity = arg[p].quantity]
                                   ELSE r : r \in cart_items}
               /\ Return(p, Ok("QuantityChanged"))
    /\ UNCHANGED <<accounts, products, catalogChanges, nextCartId, orders, order_items,
                   gatewayCalls, gatewayResponse, opsLeft, op>>

(***************************************************************************)
(* actions/cart.ts : removeCartItem, removeCartItems                       *)
(***************************************************************************)
\* a delete filtered by id alone
DeleteCartItems_AnyOwner(rows, u, ids) ==
    {r \in rows : ~(r.id \in ids)}

\* delete().eq("clerk_id", userId).in("id", ids): the rows that stay
DeleteCartItems(rows, u, ids) ==
    {r \in rows : ~(r.clerk_id = u /\ r.id \in ids)}

removeCartItem(p) ==
    \E u \in accounts \cup {NoUser}, id \in CartItemIds :
        /\ Accept(p, "removeCartItem")
        /\ IF u = NoUser THEN Return(p, Fail("Unauthenticated"))
           ELSE Start(p, "rm_delete", u, [NoArg EXCEPT !.cartItemId = id])

\* delete().eq("id", cartItemId).eq("clerk_id", userId)
rm_delete(p) ==
    /\ pc[p] = "rm_delete"
    /\ \E storeError \in BOOLEAN :
        /\ IF storeError THEN
               Return(p, Fail("StoreUnavailable")) /\ UNCHANGED cart_items
           ELSE
               /\ cart_items' = DeleteCartItems(cart_items, userId[p],
                                                {arg[p].cartItemId})
               /\ Return(p, Ok("Removed"))
    /\ UNCHANGED <<accounts, products, catalogChanges, nextCartId, orders, order_items,
                   gatewayCalls, gatewayResponse, opsLeft, op>>

removeCartItems(p) ==
    \E u \in accounts \cup {NoUser}, ids \in SUBSET CartItemIds :
        /\ Accept(p, "removeCartItems")
        /\ IF u = NoUser THEN Return(p, Fail("Unauthenticated"))
           ELSE IF ids = {} THEN Return(p, Fail("NothingSelected"))
           ELSE Start(p, "rmm_delete", u, [NoArg EXCEPT !.cartItemIds = ids])

\* delete().eq("clerk_id", userId).in("id", cartItemIds)
rmm_delete(p) ==
    /\ pc[p] = "rmm_delete"
    /\ \E storeError \in BOOLEAN :
        /\ IF storeError THEN
               Return(p, Fail("StoreUnavailable")) /\ UNCHANGED cart_items
           ELSE
               /\ cart_items' = DeleteCartItems(cart_items, userId[p],
                                                arg[p].cartItemIds)
               /\ Return(p, Ok("Removed"))
    /\ UNCHANGED <<accounts, products, catalogChanges, nextCartId, orders, order_items,
                   gatewayCalls, gatewayResponse, opsLeft, op>>

(***************************************************************************)
(* actions/cart.ts : getCartItems                                          *)
(***************************************************************************)
\* .order("created_at", {ascending: false}): newest row first.
RECURSIVE NewestFirst(_)
NewestFirst(rows) ==
    IF rows = {} THEN <<>>
    ELSE LET newest == CHOOSE r \in rows : \A x \in rows : x.id <= r.id
         IN <<newest>> \o NewestFirst(rows \ {newest})

\* The rows of the buyer joined with the current product rows.  The embedded
\* select follows the cart_items.product_id foreign key, so the joined product
\* is never null and the null filter keeps every row.
getCartItems(u) ==
    LET rows == NewestFirst({r \in cart_items : r.clerk_id = u})
    IN [i \in 1..Len(rows) |->
          [id |-> rows[i].id, clerk_id |-> rows[i].clerk_id,
           product_id |-> rows[i].product_id, quantity |-> rows[i].quantity,
           product |-> products[rows[i].product_id]]]

(***************************************************************************)
(* actions/orders.ts : createOrder                                         *)
(***************************************************************************)
\* the two checks of the validation loop, in the order the loop makes them
LineReason(item) ==
    IF ~item.product.is_active THEN "inactive"
    ELSE IF item.product.stock_quantity < item.quantity THEN "stock"
    ELSE Null

\* a validation loop that reports the last line it rejects
FirstInvalid_Last(cartItems) ==
    LET bad == {i \in 1..Len(cartItems) : LineReason(cartItems[i]) # Null}
    IN IF bad = {} THEN 0 ELSE CHOOSE i \in bad : \A j \in bad : i >= j

\* index of the first cart item the validation loop rejects, 0 when none
FirstInvalid(cartItems) ==
    LET bad == {i \in 1..Len(cartItems) : LineReason(cartItems[i]) # Null}
    IN IF bad = {} THEN 0 ELSE CHOOSE i \in bad : \A j \in bad : i <= j

\* a total that counts every line once, whatever its quantity
RECURSIVE TotalAmount_IgnoresQuantity(_)
TotalAmount_IgnoresQuantity(cartItems) ==
    IF cartItems = <<>> THEN 0
    ELSE TotalAmount_IgnoresQuantity(SubSeq(cartItems, 1, Len(cartItems) - 1))
         + cartItems[Len(cartItems)].product.price

\* cartItems.reduce((sum, item) => sum + item.product.price * item.quantity, 0)
RECURSIVE TotalAmount(_)
TotalAmount(cartItems) ==
    IF cartItems = <<>> THEN 0
    ELSE TotalAmount(SubSeq(cartItems, 1, Len(cartItems) - 1))
         + cartItems[Len(cartItems)].product.price
           * cartItems[Len(cartItems)].quantity

\* row inserted into orders
NewOrder(id, u, totalAmount, shippingAddress, orderNote) ==
    [id |-> id, clerk_id |-> u, total_amount |-> totalAmount,
     status |-> "pending", shipping_address |-> shippingAddress,
     order_note |-> orderNote,
     payment_id |-> Null, payment_method |-> Null, payment_status |-> Null,
     paid_at |-> 0, payment_info |-> {}]

\* order lines that take the product's current row instead of the snapshot
OrderItemsOf_Current(orderId, cartItems) ==
    {[order_id |-> orderId, line |-> i,
      product_id |-> cartItems[i].product_id,
      product_name |-> products[cartItems[i].product_id].name,
      quantity |-> cartItems[i].quantity,
      price |-> products[cartItems[i].product_id].price] : i \in 1..Len(cartItems)}

\* rows inserted into order_items: cartItems.map(...)
OrderItemsOf(orderId, cartItems) ==
    {[order_id |-> orderId, line |-> i,
      product_id |-> cartItems[i].product_id,
      product_name |-> cartItems[i].product.name,
      quantity |-> cartItems[i].quantity,
      price |-> cartItems[i].product.price] : i \in 1..Len(cartItems)}

\* a build that takes an empty snapshot for a cart
CartIsEmpty_Never(cartItems) == FALSE

\* cartItems.length === 0
CartIsEmpty(cartItems) == Len(cartItems) = 0

createOrder(p) ==
    \E u \in accounts \cup {NoUser}, a \in Addresses, n \in Notes :
        /\ Accept(p, "createOrder")
        /\ IF u = NoUser THEN Return(p, Fail("Unauthenticated"))
           ELSE Start(p, "co_getCartItems", u,
                      [NoArg EXCEPT !.shippingAddress = a, !.orderNote = n])

\* await getCartItems(); empty check; validation loop; total
co_getCartItems(p) ==
    /\ pc[p] = "co_getCartItems"
    /\ \E storeError \in BOOLEAN :
        /\ LET cartItems == IF storeError THEN <<>> ELSE getCartItems(userId[p])
               bad == FirstInvalid(cartItems)
           IN
           IF CartIsEmpty(cartItems) THEN
               Return(p, Fail("EmptyCart"))
           ELSE IF bad # 0 THEN
               \* the message quotes the product name and tells the two
               \* reasons apart
               Return(p, [Fail("LineInvalid") EXCEPT
                            !.product = cartItems[bad].product.name,
                            !.reason = LineReason(cartItems[bad])])
           ELSE
               Goto(p, "co_insertOrder",
                    [loc[p] EXCEPT !.cartItems = cartItems,
                                   !.totalAmount = TotalAmount(cartItems)])
    /\ UNCHANGED <<store, opsLeft, op>>

\* step 1: insert the order header
co_insertOrder(p) ==
    /\ pc[p] = "co_insertOrder"
    /\ \E storeError \in BOOLEAN :
        /\ IF storeError \/ Len(orders) >= MaxOrders THEN
               Return(p, Fail("OrderCreateFailed")) /\ UNCHANGED orders
           ELSE
               LET orderId == Len(orders) + 1 IN
               /\ orders' = Append(orders,
                                   NewOrder(orderId, userId[p], loc[p].totalAmount,
                                            arg[p].shippingAddress,
                                            arg[p].orderNote))
               /\ Goto(p, "co_insertItems", [loc[p] EXCEPT !.orderId = orderId])
    /\ UNCHANGED <<accounts, products, catalogChanges, cart_items, nextCartId,
                   order_items, gatewayCalls, gatewayResponse, opsLeft, op>>

\* a step 2 that only logs a failed insert, as step 3 does
co_insertItems_ErrorLogged(p) ==
    /\ pc[p] = "co_insertItems"
    /\ \E storeError \in BOOLEAN :
        /\ /\ order_items' = IF storeError THEN order_items
                             ELSE order_items \cup
                                    OrderItemsOf(loc[p].orderId, loc[p].cartItems)
           /\ Goto(p, "co_clearCart", loc[p])
    /\ UNCHANGED <<accounts, products, catalogChanges, cart_items, nextCartId, orders,
                   gatewayCalls, gatewayResponse, opsLeft, op>>

\* step 2: insert the order lines; on error return without touching the header
co_insertItems(p) ==
    /\ pc[p] = "co_insertItems"
    /\ \E storeError \in BOOLEAN :
        /\ IF storeError THEN
               Return(p, Fail("OrderItemsPersistFailed")) /\ UNCHANGED order_items
           ELSE
               /\ order_items' = order_items \cup
                                   OrderItemsOf(loc[p].orderId, loc[p].cartItems)
               /\ Goto(p, "co_clearCart", loc[p])
    /\ UNCHANGED <<accounts, products, catalogChanges, cart_items, nextCartId, orders,
                   gatewayCalls, gatewayResponse, opsLeft, op>>

\* a step 3 that reports a failed cart delete as a failed build
co_clearCart_ErrorFails(p) ==
    /\ pc[p] = "co_clearCart"
    /\ \E storeError \in BOOLEAN :
        /\ IF storeError THEN
               Return(p, Fail("StoreUnavailable")) /\ UNCHANGED cart_items
           ELSE
               /\ cart_items' = {r \in cart_items : r.clerk_id # userId[p]}
               /\ Return(p, [Ok("OrderCreated") EXCEPT !.orderId = loc[p].orderId])
    /\ UNCHANGED <<accounts, products, catalogChanges, nextCartId, orders, order_items,
                   gatewayCalls, gatewayResponse, opsLeft, op>>

\* step 3: delete every cart row of the buyer; an error is only logged
co_clearCart(p) ==
    /\ pc[p] = "co_clearCart"
    /\ \E storeError \in BOOLEAN :
        /\ /\ cart_items' = IF storeError THEN cart_items
                            ELSE {r \in cart_items : r.clerk_id # userId[p]}
           /\ Return(p, [Ok("OrderCreated") EXCEPT !.orderId = loc[p].orderId])
    /\ UNCHANGED <<accounts, products, catalogChanges, nextCartId, orders, order_items,
                   gatewayCalls, gatewayResponse, opsLeft, op>>

(***************************************************************************)
(* actions/orders.ts : getOrderById                                        *)
(***************************************************************************)
\* a lookup by id alone, without the clerk_id filter
getOrderById_AnyOwner(u, orderId, storeError) ==
    IF storeError \/ orderId = BadOrderId \/ orderId \notin DOMAIN orders
    THEN {}
    ELSE {orders[orderId]}

\* The caller's own order row, or null ({}): malformed id, no such row, a row
\* of another buyer and a failed read are all null.
getOrderById(u, orderId, storeError) ==
    IF storeError \/ orderId = BadOrderId \/ orderId \notin DOMAIN orders
    THEN {}
    ELSE IF orders[orderId].clerk_id = u THEN {orders[orderId]} ELSE {}

\* order.get as a request of its own: no session and a malformed id are null
\* as well
getOrder(p) ==
    \E u \in accounts \cup {NoUser}, o \in 0..MaxOrders :
        /\ Accept(p, "getOrderById")
        /\ IF u = NoUser \/ o = BadOrderId THEN Return(p, Fail("NotFound"))
           ELSE Start(p, "go_select", u, [NoArg EXCEPT !.orderId = o])

\* step 1: select * from orders .eq(id).eq(clerk_id).single()
go_select(p) ==
    /\ pc[p] = "go_select"
    /\ \E storeError \in BOOLEAN :
        /\ LET order == getOrderById(userId[p], arg[p].orderId, storeError) IN
           IF order = {} THEN
               Return(p, Fail("NotFound"))
           ELSE
               Goto(p, "go_items", [loc[p] EXCEPT !.order = order])
    /\ UNCHANGED <<store, opsLeft, op>>

\* step 2: select * from order_items .eq(order_id); the order with its items
go_items(p) ==
    /\ pc[p] = "go_items"
    /\ \E storeError \in BOOLEAN :
        /\ IF storeError THEN
               Return(p, Fail("NotFound"))
           ELSE
               Return(p, [Ok("OrderFound") EXCEPT !.orderId = arg[p].orderId])
    /\ UNCHANGED <<store, opsLeft, op>>

(***************************************************************************)
(* lib/utils/orders.ts                                                     *)
(***************************************************************************)
allowedTransitions(currentStatus) ==
    CASE currentStatus = "pending" -> {"confirmed", "cancelled"}
      [] currentStatus = "confirmed" -> {"shipped", "cancelled"}
      [] currentStatus = "shipped" -> {"delivered", "cancelled"}
      [] currentStatus = "delivered" -> {}
      [] currentStatus = "cancelled" -> {}
      [] OTHER -> {}

\* a check that only refuses the same status
canUpdateOrderStatus_AnyOther(currentStatus, newStatus) ==
    currentStatus # newStatus

canUpdateOrderStatus(currentStatus, newStatus) ==
    IF currentStatus = newStatus THEN FALSE
    ELSE newStatus \in allowedTransitions(currentStatus)

(***************************************************************************)
(* actions/orders.ts : updateOrderStatus                                   *)
(***************************************************************************)
updateOrderStatus(p) ==
    \E u \in accounts \cup {NoUser}, o \in 0..MaxOrders, st \in OrderStatuses :
        /\ Accept(p, "updateOrderStatus")
        /\ IF u = NoUser THEN Return(p, Fail("Unauthenticated"))
           ELSE IF o = BadOrderId THEN Return(p, Fail("InvalidOrderId"))
           ELSE Start(p, "us_select", u,
                      [NoArg EXCEPT !.orderId = o, !.status = st])

\* step 1: select id, clerk_id, status; same-state and legality checks
us_select(p) ==
    /\ pc[p] = "us_select"
    /\ \E storeError \in BOOLEAN :
        /\ LET order == getOrderById(userId[p], arg[p].orderId, storeError) IN
           IF order = {} THEN
               Return(p, Fail("NotFound"))
           ELSE LET o == CHOOSE r \in order : TRUE IN
               IF o.status = arg[p].status THEN
                   Return(p, Fail("NoChange"))
               ELSE IF ~canUpdateOrderStatus(o.status, arg[p].status) THEN
                   Return(p, Fail("IllegalTransition"))
               ELSE
                   Goto(p, "us_update", [loc[p] EXCEPT !.order = order])
    /\ UNCHANGED <<store, opsLeft, op>>

\* an update that writes the fields onto a fresh row
UpdateOrder_ResetsRow(orderId, u, fields) ==
    [i \in DOMAIN orders |->
        IF i = orderId /\ orders[i].clerk_id = u
        THEN [f \in DOMAIN orders[i] |->
                IF f \in DOMAIN fields THEN fields[f]
                ELSE NewOrder(i, u, 0, Null, Null)[f]]
        ELSE orders[i]]

\* update(fields).eq("id", orderId).eq("clerk_id", userId)
UpdateOrder(orderId, u, fields) ==
    [i \in DOMAIN orders |->
        IF i = orderId /\ orders[i].clerk_id = u
        THEN [f \in DOMAIN orders[i] |->
                IF f \in DOMAIN fields THEN fields[f] ELSE orders[i][f]]
        ELSE orders[i]]

\* step 3: update({status})
us_update(p) ==
    /\ pc[p] = "us_update"
    /\ \E storeError \in BOOLEAN :
        /\ IF storeError THEN
               Return(p, Fail("StoreUnavailable")) /\ UNCHANGED orders
           ELSE
               /\ orders' = UpdateOrder(arg[p].orderId, userId[p],
                                        [status |-> arg[p].status])
               /\ Return(p, Ok("StatusChanged"))
    /\ UNCHANGED <<accounts, products, catalogChanges, cart_items, nextCartId,
                   order_items, gatewayCalls, gatewayResponse, opsLeft, op>>

(***************************************************************************)
(* actions/payments.ts : requestPayment                                    *)
(***************************************************************************)
requestPayment(p) ==
    \E u \in accounts \cup {NoUser}, o \in 0..MaxOrders :
        /\ Accept(p, "requestPayment")
        /\ IF u = NoUser THEN Return(p, Fail("Unauthenticated"))
           ELSE Start(p, "rp_getOrder", u, [NoArg EXCEPT !.orderId = o])

\* a payment request that checks the order status before the payment status
rp_getOrder_StatusFirst(p) ==
    /\ pc[p] = "rp_getOrder"
    /\ \E storeError \in BOOLEAN :
        /\ LET order == getOrderById(userId[p], arg[p].orderId, storeError) IN
           IF order = {} THEN
               Return(p, Fail("NotFound"))
           ELSE LET o == CHOOSE r \in order : TRUE IN
               IF o.clerk_id # userId[p] THEN
                   Return(p, Fail("Forbidden"))
               ELSE IF o.status # "pending" THEN
                   Return(p, Fail("NotPayable"))
               ELSE IF o.payment_status = "success" THEN
                   Return(p, Fail("AlreadyPaid"))
               ELSE
                   Return(p, [Ok("PaymentReady") EXCEPT !.orderId = o.id])
    /\ UNCHANGED <<store, opsLeft, op>>

\* await getOrderById(orderId); ownership, paid and status checks
rp_getOrder(p) ==
    /\ pc[p] = "rp_getOrder"
    /\ \E storeError \in BOOLEAN :
        /\ LET order == getOrderById(userId[p], arg[p].orderId, storeError) IN
           IF order = {} THEN
               Return(p, Fail("NotFound"))
           ELSE LET o == CHOOSE r \in order : TRUE IN
               IF o.clerk_id # userId[p] THEN
                   Return(p, Fail("Forbidden"))
               ELSE IF o.payment_status = "success" THEN
                   Return(p, Fail("AlreadyPaid"))
               ELSE IF o.status # "pending" THEN
                   Return(p, Fail("NotPayable"))
               ELSE
                   Return(p, [Ok("PaymentReady") EXCEPT !.orderId = o.id])
    /\ UNCHANGED <<store, opsLeft, op>>

(***************************************************************************)
(* actions/payments.ts : confirmPayment                                    *)
(***************************************************************************)
\* amounts a client may report for an order: its total, or something else
AmountInputs(orderId) ==
    IF orderId \in DOMAIN orders
    THEN {orders[orderId].total_amount, orders[orderId].total_amount - 1}
    ELSE {1}

\* an amount check that accepts whatever the client reports
AmountMatches_Skipped(order, amount) == TRUE

\* the amount check
AmountMatches(order, amount) == order.total_amount = amount

\* paymentData.method narrowed to the four methods the code names (written
\* here as card, vbank, transfer, phone), card by default
PaymentMethodOf(method) ==
    IF method \in {"card", "vbank", "transfer", "phone"} THEN method
    ELSE "card"

\* paymentInfo built from the gateway's response
PaymentInfoOf(paymentData) ==
    [amount |-> paymentData.totalAmount,
     method |-> PaymentMethodOf(paymentData.method),
     paymentKey |-> paymentData.paymentKey,
     orderId |-> paymentData.orderId]

\* the fields the confirm update writes
ConfirmFields(paymentKey, paymentData, now) ==
    [payment_id |-> paymentKey,
     payment_method |-> PaymentMethodOf(paymentData.method),
     payment_status |-> "success",
     paid_at |-> now,
     payment_info |-> {PaymentInfoOf(paymentData)},
     status |-> "confirmed"]

confirmPayment(p) ==
    \E u \in accounts \cup {NoUser}, k \in PaymentKeys, o \in 0..MaxOrders :
    \E a \in AmountInputs(o) :
        /\ Accept(p, "confirmPayment")
        /\ IF u = NoUser THEN Return(p, Fail("Unauthenticated"))
           ELSE Start(p, "cp_getOrder", u,
                      [NoArg EXCEPT !.paymentKey = k, !.orderId = o,
                                    !.amount = a])

\* await getOrderById(orderId); ownership check; amount check; secret key
cp_getOrder(p) ==
    /\ pc[p] = "cp_getOrder"
    /\ \E storeError \in BOOLEAN, secretKey \in BOOLEAN :
        /\ LET order == getOrderById(userId[p], arg[p].orderId, storeError) IN
           IF order = {} THEN
               Return(p, Fail("NotFound"))
           ELSE LET o == CHOOSE r \in order : TRUE IN
               IF o.clerk_id # userId[p] THEN
                   Return(p, Fail("Forbidden"))
               ELSE IF ~AmountMatches(o, arg[p].amount) THEN
                   Return(p, Fail("AmountMismatch"))
               ELSE IF ~secretKey THEN
                   Return(p, Fail("ConfigError"))
               ELSE
                   Goto(p, "cp_fetch", [loc[p] EXCEPT !.order = order])
    /\ UNCHANGED <<store, opsLeft, op>>

\* a gateway call that goes on to the order update whatever the answer's status
cp_fetch_RefusalIgnored(p) ==
    /\ pc[p] = "cp_fetch"
    /\ gatewayCalls < MaxGatewayCalls
    /\ gatewayCalls' = gatewayCalls + 1
    /\ \E response \in {"ok", "notok", "throw"}, method \in GatewayMethods :
        /\ gatewayResponse' = response
        /\ IF response = "throw" THEN Return(p, Fail("Unexpected"))
           ELSE Goto(p, "cp_update",
                     [loc[p] EXCEPT !.paymentData =
                         {[method |-> method,
                           totalAmount |-> arg[p].amount,
                           paymentKey |-> arg[p].paymentKey,
                           orderId |-> arg[p].orderId]}])
    /\ UNCHANGED <<accounts, products, catalogChanges, cart_items, nextCartId,
                   orders, order_items, opsLeft, op>>

\* a gateway call whose failure to answer is reported as the gateway's refusal
cp_fetch_ThrowAsRefusal(p) ==
    /\ pc[p] = "cp_fetch"
    /\ gatewayCalls < MaxGatewayCalls
    /\ gatewayCalls' = gatewayCalls + 1
    /\ \E response \in {"ok", "notok", "throw"}, method \in GatewayMethods :
        /\ gatewayResponse' = response
        /\ IF response # "ok" THEN Return(p, Fail("GatewayRejected"))
           ELSE Goto(p, "cp_update",
                     [loc[p] EXCEPT !.paymentData =
                         {[method |-> method,
                           totalAmount |-> arg[p].amount,
                           paymentKey |-> arg[p].paymentKey,
                           orderId |-> arg[p].orderId]}])
    /\ UNCHANGED <<accounts, products, catalogChanges, cart_items, nextCartId,
                   orders, order_items, opsLeft, op>>

\* await fetch(.../payments/confirm): approved, refused (!response.ok), or the
\* fetch throws (network error / no response).
cp_fetch(p) ==
    /\ pc[p] = "cp_fetch"
    /\ gatewayCalls < MaxGatewayCalls
    /\ gatewayCalls' = gatewayCalls + 1
    /\ \E response \in {"ok", "notok", "throw"}, method \in GatewayMethods :
        /\ gatewayResponse' = response
        /\ CASE response = "notok" -> Return(p, Fail("GatewayRejected"))
          [] response = "throw" -> Return(p, Fail("Unexpected"))
          [] response = "ok" ->
               Goto(p, "cp_update",
                    [loc[p] EXCEPT !.paymentData =
                        {[method |-> method,
                          totalAmount |-> arg[p].amount,
                          paymentKey |-> arg[p].paymentKey,
                          orderId |-> arg[p].orderId]}])
    /\ UNCHANGED <<accounts, products, catalogChanges, cart_items, nextCartId,
                   orders, order_items, opsLeft, op>>

\* an order update that, when it fails, goes back to the gateway
cp_update_Retries(p) ==
    /\ pc[p] = "cp_update"
    /\ \E storeError \in BOOLEAN :
        /\ IF storeError THEN
               Goto(p, "cp_fetch", loc[p]) /\ UNCHANGED orders
           ELSE
               /\ orders' = UpdateOrder(arg[p].orderId, userId[p],
                               ConfirmFields(arg[p].paymentKey,
                                             CHOOSE d \in loc[p].paymentData : TRUE,
                                             gatewayCalls))
               /\ Return(p, Ok("Paid"))
    /\ UNCHANGED <<accounts, products, catalogChanges, cart_items, nextCartId,
                   order_items, gatewayCalls, gatewayResponse, opsLeft, op>>

\* update({payment fields, status: "confirmed"}).eq("id").eq("clerk_id");
\* paid_at is the time of the write (the gateway call count is the clock)
cp_update(p) ==
    /\ pc[p] = "cp_update"
    /\ \E storeError \in BOOLEAN :
        /\ IF storeError THEN
               Return(p, Fail("PostPaymentPersistFailed")) /\ UNCHANGED orders
           ELSE
               /\ orders' = UpdateOrder(arg[p].orderId, userId[p],
                               ConfirmFields(arg[p].paymentKey,
                                             CHOOSE d \in loc[p].paymentData : TRUE,
                                             gatewayCalls))
               /\ Return(p, Ok("Paid"))
    /\ UNCHANGED <<accounts, products, catalogChanges, cart_items, nextCartId,
                   order_items, gatewayCalls, gatewayResponse, opsLeft, op>>

(***************************************************************************)
(* actions/payments.ts : cancelPayment                                     *)
(***************************************************************************)
cancelPayment(p) ==
    \E u \in accounts \cup {NoUser}, o \in 0..MaxOrders :
        /\ Accept(p, "cancelPayment")
        /\ IF u = NoUser THEN Return(p, Fail("Unauthenticated"))
           ELSE Start(p, "xp_getOrder", u, [NoArg EXCEPT !.orderId = o])

\* a cancel that asks the transition table whether the order may be cancelled
xp_getOrder_ByTransitionTable(p) ==
    /\ pc[p] = "xp_getOrder"
    /\ \E storeError \in BOOLEAN :
        /\ LET order == getOrderById(userId[p], arg[p].orderId, storeError) IN
           IF order = {} THEN
               Return(p, Fail("NotFound"))
           ELSE LET o == CHOOSE r \in order : TRUE IN
               IF o.clerk_id # userId[p] THEN
                   Return(p, Fail("Forbidden"))
               ELSE IF ~canUpdateOrderStatus(o.status, "cancelled") THEN
                   Return(p, Fail("NotCancellable"))
               ELSE
                   Goto(p, "xp_update", [loc[p] EXCEPT !.order = order])
    /\ UNCHANGED <<store, opsLeft, op>>

\* await getOrderById(orderId); ownership and status checks
xp_getOrder(p) ==
    /\ pc[p] = "xp_getOrder"
    /\ \E storeError \in BOOLEAN :
        /\ LET order == getOrderById(userId[p], arg[p].orderId, storeError) IN
           IF order = {} THEN
               Return(p, Fail("NotFound"))
           ELSE LET o == CHOOSE r \in order : TRUE IN
               IF o.clerk_id # userId[p] THEN
                   Return(p, Fail("Forbidden"))
               ELSE IF o.status # "pending" /\ o.status # "confirmed" THEN
                   Return(p, Fail("NotCancellable"))
               ELSE
                   Goto(p, "xp_update", [loc[p] EXCEPT !.order = order])
    /\ UNCHANGED <<store, opsLeft, op>>

\* update({status: "cancelled", payment_status: "cancelled"})
xp_update(p) ==
    /\ pc[p] = "xp_update"
    /\ \E storeError \in BOOLEAN :
        /\ IF storeError THEN
               Return(p, Fail("StoreUnavailable")) /\ UNCHANGED orders
           ELSE
               /\ orders' = UpdateOrder(arg[p].orderId, userId[p],
                               [status |-> "cancelled",
                                payment_status |-> "cancelled"])
               /\ Return(p, Ok("Cancelled"))
    /\ UNCHANGED <<accounts, products, catalogChanges, cart_items, nextCartId,
                   order_items, gatewayCalls, gatewayResponse, opsLeft, op>>

(***************************************************************************)
(* Properties                                                              *)
(***************************************************************************)
\* the stored order row the request of worker p is about, if it is the
\* caller's own
OwnOrder(p) ==
    IF arg[p].orderId \in DOMAIN orders
       /\ orders[arg[p].orderId].clerk_id = userId[p]
    THEN {orders[arg[p].orderId]} ELSE {}

\* worker p returns from the step it is suspended at
Returns(p, at) == pc[p] = at /\ pc'[p] = "idle"

\* C1: confirmPayment with a reported amount different from the order's
\* total_amount fails (AmountMismatch whenever the order lookup succeeded),
\* sends nothing to the gateway and leaves the orders table as it was; the
\* gateway round trip is only ever reached with an amount equal to the total
\* of the order that was loaded.
C1_AmountMismatch ==
    /\ [](\A p \in Procs :
            pc[p] \in {"cp_fetch", "cp_update"} =>
                \A o \in loc[p].order : o.total_amount = arg[p].amount)
    /\ [][\A p \in Procs :
            (/\ pc[p] = "cp_getOrder" /\ pc'[p] # "cp_getOrder"
             /\ \E o \in OwnOrder(p) : o.total_amount # arg[p].amount)
            => /\ pc'[p] = "idle"
               /\ ~result'[p].success
               /\ result'[p].kind # "NotFound"
                     => result'[p].kind = "AmountMismatch"
               /\ orders' = orders
               /\ gatewayCalls' = gatewayCalls]_vars

\* C1 witness: a confirm was refused for its amount, the order is still
\* pending and unpaid, the gateway was never contacted.
C1_Witness ==
    \E p \in Procs :
        /\ op[p] = "confirmPayment"
        /\ result[p].kind = "AmountMismatch"
        /\ gatewayCalls = 0
        /\ \E o \in DOMAIN orders :
              orders[o].status = "pending" /\ orders[o].payment_status = Null

\* the order lines of order o
LinesOf(o) == {l \in order_items : l.order_id = o}

\* sum of price x quantity over a set of order lines
RECURSIVE LineSum(_)
LineSum(lines) ==
    IF lines = {} THEN 0
    ELSE LET l == CHOOSE x \in lines : TRUE
         IN l.price * l.quantity + LineSum(lines \ {l})

\* the cart rows of buyer u
CartOf(u) == {r \in cart_items : r.clerk_id = u}

\* C2: a successful payment.confirm writes status "confirmed" only onto a
\* pending order: the confirm's write never changes the status of an order
\* that is confirmed, shipped, delivered or cancelled.
C2_GuardedConfirm ==
    [][\A p \in Procs :
        (Returns(p, "cp_update") /\ result'[p].success)
        => \A o \in DOMAIN orders :
              orders[o].status # "pending"
              => orders'[o].status = orders[o].status]_vars

\* C3: delivered and cancelled are absorbing: no step of any request ever
\* changes the status of an order that is delivered or cancelled.
C3_Absorbing ==
    [][\A o \in DOMAIN orders :
          orders[o].status \in {"delivered", "cancelled"}
          => orders'[o].status = orders[o].status]_vars

\* the six edges of the order state machine
AllowedEdges ==
    {<<"pending", "confirmed">>, <<"pending", "cancelled">>,
     <<"confirmed", "shipped">>, <<"confirmed", "cancelled">>,
     <<"shipped", "delivered">>, <<"shipped", "cancelled">>}

\* order.transition returns to the owner of an order it has found
TransitionReturns(p) ==
    /\ op[p] = "updateOrderStatus"
    /\ pc[p] \in {"us_select", "us_update"}
    /\ pc'[p] = "idle"
    /\ OwnOrder(p) # {}
    /\ result'[p].kind # "NotFound"

\* the status order.transition holds against the requested one
CheckedStatus(p) ==
    IF pc[p] = "us_update" THEN (CHOOSE r \in loc[p].order : TRUE).status
    ELSE orders[arg[p].orderId].status

\* C4 as stated: order.transition by the owner succeeds and sets the status
\* exactly when (current, newStatus) is one of the six edges; for every other
\* pair it fails (same status: NoChange) and leaves the order unchanged.
C4_TransitionExactly ==
    [][\A p \in Procs :
        TransitionReturns(p)
        => IF <<CheckedStatus(p), arg[p].status>> \in AllowedEdges
           THEN /\ result'[p].success
                /\ orders'[arg[p].orderId].status = arg[p].status
           ELSE /\ ~result'[p].success
                /\ orders' = orders]_vars

\* C4 amended: order.transition by the owner succeeds only when (current,
\* newStatus) is one of the six edges, and then it sets the status to
\* newStatus and nothing else; on an edge it succeeds unless the store fails
\* the update (StoreUnavailable); for every other pair it fails, as NoChange
\* when newStatus is the current status and as IllegalTransition otherwise;
\* every failure leaves the orders unchanged.
C4_TransitionOnlyOnEdges ==
    [][\A p \in Procs :
        TransitionReturns(p)
        => LET cur == CheckedStatus(p)
               new == arg[p].status
               oid == arg[p].orderId
           IN
           /\ result'[p].success
              => /\ <<cur, new>> \in AllowedEdges
                 /\ orders' = [orders EXCEPT ![oid].status = new]
           /\ (<<cur, new>> \in AllowedEdges
               /\ result'[p].kind # "StoreUnavailable")
              => result'[p].success
           /\ <<cur, new>> \notin AllowedEdges
              => /\ ~result'[p].success
                 /\ result'[p].kind =
                      IF cur = new THEN "NoChange" ELSE "IllegalTransition"
           /\ ~result'[p].success => orders' = orders]_vars

\* C4 witness: transitions have walked an order along pending -> confirmed
\* -> shipped -> delivered, the last one just returned success.
C4_Witness ==
    \E p \in Procs :
        /\ op[p] = "updateOrderStatus"
        /\ pc[p] = "idle"
        /\ result[p].kind = "StatusChanged"
        /\ \E o \in DOMAIN orders :
              orders[o].status = "delivered" /\ orders[o].payment_status = Null

\* C5 as stated: in every reachable state each order's total_amount equals
\* the sum of price x quantity over its order lines.
C5_TotalIsLineSum ==
    \A o \in DOMAIN orders : orders[o].total_amount = LineSum(LinesOf(o))

\* C5 amended: in every reachable state each order that has order lines has
\* total_amount equal to the sum of price x quantity over them, whatever the
\* catalog prices have become since; an order whose lines were never written
\* (between the header insert and the lines insert, or for good after
\* OrderItemsPersistFailed) has a total and no lines.
C5_TotalIsLineSumOnceWritten ==
    \A o \in DOMAIN orders :
        LinesOf(o) # {} => orders[o].total_amount = LineSum(LinesOf(o))

\* C5 witness: an order with a line of quantity 2 whose product has since
\* got another catalog price.
C5_Witness ==
    \E o \in DOMAIN orders :
        \E l \in LinesOf(o) :
            /\ l.quantity = 2
            /\ products[l.product_id].price # l.price
            /\ orders[o].total_amount = 2 * l.price

\* C6: order.build is all-or-nothing on order lines: when it returns, either
\* it inserted no header and no line and failed, or the order it created has
\* at least one line and it succeeded with that order's id, or the order it
\* created has no line and the result is the failure OrderItemsPersistFailed;
\* a build that reports success always names an order that has lines.
C6_AllOrNothing ==
    /\ [](\A p \in Procs :
            (op[p] = "createOrder" /\ result[p].success)
            => /\ result[p].orderId \in DOMAIN orders
               /\ LinesOf(result[p].orderId) # {})
    /\ [](\A p \in Procs :
            pc[p] \in {"co_getCartItems", "co_insertOrder"}
            => loc[p].orderId = BadOrderId)
    /\ [][\A p \in Procs :
            /\ (pc[p] = "co_insertOrder" /\ orders' # orders)
               => /\ pc'[p] = "co_insertItems"
                  /\ loc'[p].orderId = Len(orders')
                  /\ Len(orders') = Len(orders) + 1
            /\ (op[p] = "createOrder" /\ pc[p] # "idle" /\ pc'[p] = "idle")
               => LET created == loc[p].orderId
                      lines == {l \in order_items' : l.order_id = created}
                  IN
                  \/ /\ created = BadOrderId
                     /\ orders' = orders /\ order_items' = order_items
                     /\ ~result'[p].success
                  \/ /\ created # BadOrderId
                     /\ lines # {}
                     /\ result'[p].success /\ result'[p].orderId = created
                  \/ /\ created # BadOrderId
                     /\ lines = {}
                     /\ ~result'[p].success
                     /\ result'[p].kind = "OrderItemsPersistFailed"]_vars

\* C6 witness: a build returned OrderItemsPersistFailed and left a header
\* without lines behind.
C6_Witness ==
    \E p \in Procs :
        /\ op[p] = "createOrder"
        /\ result[p].kind = "OrderItemsPersistFailed"
        /\ ~result[p].success
        /\ \E o \in DOMAIN orders : LinesOf(o) = {}

\* C7: order.build for a buyer whose cart has no lines fails with EmptyCart
\* at its cart read and writes no order header and no order line.
C7_EmptyCart ==
    [][\A p \in Procs :
        (/\ pc[p] = "co_getCartItems" /\ pc'[p] # "co_getCartItems"
         /\ CartOf(userId[p]) = {})
        => /\ pc'[p] = "idle"
           /\ ~result'[p].success
           /\ result'[p].kind = "EmptyCart"
           /\ orders' = orders
           /\ order_items' = order_items]_vars

\* C7 witness: a build was refused as EmptyCart while the store holds no cart
\* line, no order and no order line.
C7_Witness ==
    \E p \in Procs :
        /\ op[p] = "createOrder"
        /\ result[p].kind = "EmptyCart"
        /\ cart_items = {}
        /\ orders = <<>>
        /\ order_items = {}

\* a cart line whose product is not purchasable or short of stock
LineIsInvalid(r) ==
    \/ ~products[r.product_id].is_active
    \/ products[r.product_id].stock_quantity < r.quantity

\* C8: when a line of the cart snapshot has a product that is not purchasable
\* or whose stock is below the line's quantity, order.build fails at its cart
\* read with LineInvalid for the first such line of the snapshot (newest line
\* first), naming its product and the reason, inactive before stock; it
\* inserts no header and no line and leaves the cart as it is.  (A failed
\* cart read yields a snapshot without lines: EmptyCart.)
C8_LineInvalid ==
    [][\A p \in Procs :
        (/\ pc[p] = "co_getCartItems" /\ pc'[p] # "co_getCartItems"
         /\ \E r \in CartOf(userId[p]) : LineIsInvalid(r))
        => LET bad == {r \in CartOf(userId[p]) : LineIsInvalid(r)}
               first == CHOOSE r \in bad : \A x \in bad : x.id <= r.id
           IN
           /\ pc'[p] = "idle"
           /\ ~result'[p].success
           /\ \/ result'[p].kind = "EmptyCart"
              \/ /\ result'[p].kind = "LineInvalid"
                 /\ result'[p].product = products[first.product_id].name
                 /\ result'[p].reason =
                      IF ~products[first.product_id].is_active
                      THEN "inactive" ELSE "stock"
           /\ orders' = orders
           /\ order_items' = order_items
           /\ cart_items' = cart_items]_vars

\* C8 witness: a build was refused as LineInvalid on a cart with two invalid
\* lines of differently named products; no order exists, the cart is whole.
C8_Witness ==
    \E p \in Procs :
        /\ op[p] = "createOrder"
        /\ result[p].kind = "LineInvalid"
        /\ \E r1, r2 \in cart_items :
              /\ r1.id < r2.id
              /\ LineIsInvalid(r1) /\ LineIsInvalid(r2)
              /\ products[r1.product_id].name # products[r2.product_id].name
              /\ result[p].product = products[r2.product_id].name
        /\ orders = <<>>

\* C9: a successful order.build takes one snapshot item per cart line of the
\* buyer with the product's name and price of that moment, inserts one
\* pending order of the buyer whose total is the snapshot's, inserts exactly
\* one order line per snapshot item with its product id, quantity, name and
\* price, and then deletes every cart line of the buyer (unless that delete
\* fails) and returns the order's id.
C9_BuildSuccess ==
    [][\A p \in Procs :
        /\ (pc[p] = "co_getCartItems" /\ pc'[p] = "co_insertOrder")
           => LET snap == loc'[p].cartItems IN
              /\ Len(snap) = Cardinality(CartOf(userId[p]))
              /\ \A r \in CartOf(userId[p]) :
                    \E i \in 1..Len(snap) :
                        /\ snap[i].id = r.id
                        /\ snap[i].product_id = r.product_id
                        /\ snap[i].quantity = r.quantity
                        /\ snap[i].product.name = products[r.product_id].name
                        /\ snap[i].product.price = products[r.product_id].price
        /\ (pc[p] = "co_insertOrder" /\ pc'[p] = "co_insertItems")
           => /\ Len(orders') = Len(orders) + 1
              /\ SubSeq(orders', 1, Len(orders)) = orders
              /\ LET o == orders'[Len(orders')] IN
                 /\ o.status = "pending"
                 /\ o.clerk_id = userId[p]
                 /\ o.payment_status = Null
                 /\ o.total_amount = loc[p].totalAmount
                 /\ loc'[p].orderId = o.id
        /\ (pc[p] = "co_insertItems" /\ pc'[p] = "co_clearCart")
           => LET snap == loc[p].cartItems
                  new == order_items' \ order_items
              IN
              /\ order_items \subseteq order_items'
              /\ Cardinality(new) = Len(snap)
              /\ \A i \in 1..Len(snap) :
                    \E l \in new :
                        /\ l.order_id = loc[p].orderId
                        /\ l.line = i
                        /\ l.product_id = snap[i].product_id
                        /\ l.quantity = snap[i].quantity
                        /\ l.product_name = snap[i].product.name
                        /\ l.price = snap[i].product.price
        /\ Returns(p, "co_clearCart")
           => /\ result'[p].success
              /\ result'[p].orderId = loc[p].orderId
              /\ \/ {r \in cart_items' : r.clerk_id = userId[p]} = {}
                 \/ cart_items' = cart_items]_vars

\* C9 witness: the cart (P1 x 2 at price 2, P2 x 1 at price 1) has become a
\* pending order of total 5 with two lines, and the cart is empty.
C9_Witness ==
    \E p \in Procs :
        /\ op[p] = "createOrder"
        /\ result[p].success
        /\ cart_items = {}
        /\ LET o == result[p].orderId IN
           /\ orders[o].status = "pending"
           /\ orders[o].total_amount = 5
           /\ Cardinality(LinesOf(o)) = 2
           /\ \E l \in LinesOf(o) :
                l.product_id = "P1" /\ l.quantity = 2 /\ l.price = 2
           /\ \E l \in LinesOf(o) :
                l.product_id = "P2" /\ l.quantity = 1 /\ l.price = 1

\* C10: a build that fails after its header insert with
\* OrderItemsPersistFailed returns the id of the order it created.
C10_PersistFailedCarriesId ==
    \A p \in Procs :
        (op[p] = "createOrder" /\ result[p].kind = "OrderItemsPersistFailed")
        => result[p].orderId # BadOrderId

\* C11: when the cart delete of order.build fails after the header and the
\* lines were written, the build still returns success with the order's id;
\* the order and its lines stay in the store and the cart is left as it was.
C11_ClearFailureIsNotFatal ==
    [][\A p \in Procs :
        (/\ Returns(p, "co_clearCart")
         /\ {r \in cart_items' : r.clerk_id = userId[p]} # {})
        => /\ result'[p].success
           /\ result'[p].orderId = loc[p].orderId
           /\ orders' = orders
           /\ order_items' = order_items
           /\ {l \in order_items' : l.order_id = loc[p].orderId} # {}
           /\ cart_items' = cart_items]_vars

\* C11 witness: a build has returned success for an order with lines while the
\* buyer's cart still holds the lines the order was built from.
C11_Witness ==
    \E p \in Procs :
        /\ op[p] = "createOrder"
        /\ result[p].success
        /\ LinesOf(result[p].orderId) # {}
        /\ cart_items # {}
        /\ \A r \in cart_items :
              \E l \in LinesOf(result[p].orderId) :
                  l.product_id = r.product_id /\ l.quantity = r.quantity

\* the quantity the cart of buyer u holds of product x
QuantityIn(rows, u, x) ==
    LET own == {r \in rows : r.clerk_id = u /\ r.product_id = x}
    IN IF own = {} THEN 0 ELSE (CHOOSE r \in own : TRUE).quantity

\* the stock figure cart.add compares quantities with: the product row it read
StockRead(p) ==
    IF pc[p] = "add_getProduct" THEN products[arg[p].productId].stock_quantity
    ELSE (CHOOSE r \in loc[p].product : TRUE).stock_quantity

GatewayAnswers(p, response) ==
    /\ pc[p] = "cp_fetch"
    /\ pc'[p] # "cp_fetch"
    /\ gatewayResponse' = response

\* C14: when the gateway answers payment.confirm with a non-success response,
\* confirm fails with GatewayRejected and leaves every order as it is.
C14_GatewayRejected ==
    [][\A p \in Procs :
        GatewayAnswers(p, "notok")
        => /\ pc'[p] = "idle"
           /\ ~result'[p].success
           /\ result'[p].kind = "GatewayRejected"
           /\ orders' = orders]_vars

\* C14 witness: the gateway has refused the one confirm sent to it; the order
\* is still pending and carries no payment field.
C14_Witness ==
    \E p \in Procs :
        /\ op[p] = "confirmPayment"
        /\ result[p].kind = "GatewayRejected"
        /\ gatewayResponse = "notok"
        /\ gatewayCalls = 1
        /\ \E o \in DOMAIN orders :
              /\ orders[o].status = "pending"
              /\ orders[o].payment_status = Null
              /\ orders[o].payment_id = Null

\* C15: once a successful confirm has written an order's payment record
\* (payment_status = success), a later confirm's write does not overwrite
\* its payment_id, paid_at or payment_info.
C15_PaymentWrittenOnce ==
    [][\A p \in Procs :
        pc[p] = "cp_update"
        => \A o \in DOMAIN orders :
              orders[o].payment_status = "success"
              => /\ orders'[o].payment_id = orders[o].payment_id
                 /\ orders'[o].paid_at = orders[o].paid_at
                 /\ orders'[o].payment_info = orders[o].payment_info]_vars

\* C16: when the order update fails after the gateway approved the charge,
\* confirm returns at once, without another gateway call or write, with the
\* failure PostPaymentPersistFailed, which is not the outcome of a refusal.
C16_PostPaymentPersistFailed ==
    [][\A p \in Procs :
        (pc[p] = "cp_update" /\ pc'[p] # "cp_update")
        => /\ pc'[p] = "idle"
           /\ gatewayCalls' = gatewayCalls
           /\ gatewayResponse = "ok"
           /\ orders' = orders
              => /\ ~result'[p].success
                 /\ result'[p].kind = "PostPaymentPersistFailed"
                 /\ result'[p] # Fail("GatewayRejected")
           /\ orders' # orders => result'[p].success]_vars

\* C16 witness: the gateway approved the charge, the update failed: confirm
\* reported PostPaymentPersistFailed and the order is still pending, unpaid.
C16_Witness ==
    \E p \in Procs :
        /\ op[p] = "confirmPayment"
        /\ result[p].kind = "PostPaymentPersistFailed"
        /\ gatewayResponse = "ok"
        /\ gatewayCalls = 1
        /\ \E o \in DOMAIN orders :
              orders[o].status = "pending" /\ orders[o].payment_status = Null

C18_Initiate ==
    [][\A p \in Procs :
        /\ (/\ Returns(p, "rp_getOrder")
            /\ OwnOrder(p) # {}
            /\ result'[p].kind # "NotFound")
           => LET o == orders[arg[p].orderId] IN
              result'[p] =
                 IF o.payment_status = "success" THEN Fail("AlreadyPaid")
                 ELSE IF o.status # "pending" THEN Fail("NotPayable")
                 ELSE [Ok("PaymentReady") EXCEPT !.orderId = o.id]
        /\ (pc[p] = "rp_getOrder" /\ pc'[p] # "rp_getOrder")
           => /\ pc'[p] = "idle"
              /\ orders' = orders
              /\ order_items' = order_items
              /\ cart_items' = cart_items
              /\ products' = products
              /\ gatewayCalls' = gatewayCalls]_vars

\* C18 witness: payment.initiate has been refused as AlreadyPaid for an order
\* that is paid and no longer pending.
C18_Witness ==
    \E p \in Procs :
        /\ op[p] = "requestPayment"
        /\ result[p].kind = "AlreadyPaid"
        /\ gatewayCalls = 1
        /\ \E o \in DOMAIN orders :
              orders[o].payment_status = "success" /\ orders[o].status = "confirmed"

\* payment.cancel returns to the owner of an order it has found
CancelReturns(p) ==
    /\ op[p] = "cancelPayment"
    /\ pc[p] \in {"xp_getOrder", "xp_update"}
    /\ pc'[p] = "idle"
    /\ OwnOrder(p) # {}
    /\ result'[p].kind # "NotFound"

\* the status payment.cancel has checked
CancelCheckedStatus(p) ==
    IF pc[p] = "xp_update" THEN (CHOOSE r \in loc[p].order : TRUE).status
    ELSE orders[arg[p].orderId].status

\* C19: payment.cancel by the owner succeeds only on a pending or confirmed
\* order and then sets status and payment_status to cancelled and nothing
\* else; on a shipped, delivered or cancelled order it fails and changes
\* nothing; order.transition(shipped -> cancelled) on such a shipped order is
\* let through by the transition check and succeeds when its update is written.
C19_Cancel ==
    [][\A p \in Procs :
        /\ CancelReturns(p)
           => LET cur == CancelCheckedStatus(p)
                  oid == arg[p].orderId
              IN
              /\ result'[p].success
                 => /\ cur \in {"pending", "confirmed"}
                    /\ orders' = [orders EXCEPT
                                    ![oid].status = "cancelled",
                                    ![oid].payment_status = "cancelled"]
              /\ cur \in {"shipped", "delivered", "cancelled"}
                 => /\ result'[p] = Fail("NotCancellable")
                    /\ orders' = orders
              /\ ~result'[p].success => orders' = orders
        /\ (/\ TransitionReturns(p)
            /\ CheckedStatus(p) = "shipped"
            /\ arg[p].status = "cancelled")
           => /\ result'[p].kind \in {"StatusChanged", "StoreUnavailable"}
              /\ result'[p].success
                 => orders'[arg[p].orderId].status = "cancelled"]_vars

\* C19 witness: payment.cancel has just been refused on a shipped order, which
\* is still shipped.
C19_Witness ==
    \E p \in Procs :
        /\ op[p] = "cancelPayment"
        /\ result[p] = Fail("NotCancellable")
        /\ \E o \in DOMAIN orders : orders[o].status = "shipped"

\* the first round trip of the five requests that name an order
OrderLookups == {"go_select", "us_select", "rp_getOrder", "cp_getOrder", "xp_getOrder"}

\* the order the request names is in the store under another buyer
OrderOfAnother(p) ==
    /\ arg[p].orderId \in DOMAIN orders
    /\ orders[arg[p].orderId].clerk_id # userId[p]

\* the request names a well-formed order id that no order has
OrderMissing(p) ==
    /\ arg[p].orderId # BadOrderId
    /\ arg[p].orderId \notin DOMAIN orders

\* C20: order.get, order.transition, payment.initiate, payment.confirm and
\* payment.cancel answer a caller who names another buyer's order with the
\* very result they give for an order id that no order has (NotFound), at
\* their first lookup, and leave the orders, their lines and the gateway
\* untouched.
C20_NotFoundForStrangers ==
    [][\A p \in Procs :
        (/\ pc[p] \in OrderLookups
         /\ pc'[p] # pc[p]
         /\ OrderOfAnother(p) \/ OrderMissing(p))
        => /\ pc'[p] = "idle"
           /\ result'[p] = Fail("NotFound")
           /\ orders' = orders
           /\ order_items' = order_items
           /\ gatewayCalls' = gatewayCalls]_vars

\* C20 witness: payment.confirm is at its lookup of an unpaid order that
\* belongs to another buyer, with the amount of that order.
C20_Witness ==
    \E p \in Procs :
        /\ pc[p] = "cp_getOrder"
        /\ OrderOfAnother(p)
        /\ orders[arg[p].orderId].status = "pending"
        /\ arg[p].amount = orders[arg[p].orderId].total_amount

\* the cart row with the given id, as a set
CartRow(rows, id) == {r \in rows : r.id = id}

\* C21: cart.setQuantity(line_id, q) writes q into the line only when the
\* line is the caller's, q >= 1, and the product it read is purchasable with
\* stock >= q; a request that finds no own line fails NotFound, an inactive
\* product fails ProductUnavailable, a short stock fails InsufficientStock, a
\* quantity below 1 is refused at once, and every failure leaves the cart
\* as it was.
C21_SetQuantity ==
    [][\A p \in Procs :
        /\ (op'[p] = "updateCartItemQuantity" /\ pc[p] = "idle" /\ pc'[p] # "idle")
           => arg'[p].quantity >= 1
        /\ (op'[p] = "updateCartItemQuantity" /\ pc[p] = "idle" /\ pc'[p] = "idle"
            /\ opsLeft' # opsLeft /\ catalogChanges' = catalogChanges)
           => /\ result'[p] \in {Fail("Unauthenticated"), Fail("InvalidQuantity")}
              /\ cart_items' = cart_items
        /\ (pc[p] = "uq_fetch" /\ pc'[p] # "uq_fetch")
           => LET own == {r \in CartRow(cart_items, arg[p].cartItemId) :
                              r.clerk_id = userId[p]}
              IN
              /\ cart_items' = cart_items
              /\ own = {} => result'[p] = Fail("NotFound")
              /\ own # {} =>
                   LET product == products[(CHOOSE r \in own : TRUE).product_id] IN
                   \/ result'[p] = Fail("NotFound")
                   \/ result'[p] =
                        IF ~product.is_active THEN Fail("ProductUnavailable")
                        ELSE IF product.stock_quantity < arg[p].quantity
                             THEN Fail("InsufficientStock")
                        ELSE result[p]
              /\ pc'[p] = "uq_update"
                 => /\ own # {}
                    /\ \A pr \in loc'[p].product :
                          pr.is_active /\ pr.stock_quantity >= arg[p].quantity
        /\ (pc[p] = "uq_update" /\ pc'[p] # "uq_update")
           => /\ \A pr \in loc[p].product :
                    pr.is_active /\ pr.stock_quantity >= arg[p].quantity
              /\ arg[p].quantity >= 1
              /\ result'[p].success
                 => cart_items' =
                       {IF r.id = arg[p].cartItemId /\ r.clerk_id = userId[p]
                        THEN [r EXCEPT !.quantity = arg[p].quantity]
                        ELSE r : r \in cart_items}
              /\ ~result'[p].success => cart_items' = cart_items]_vars

\* C21 witness: cart.setQuantity has been refused for want of stock and the
\* line still holds its old quantity.
C21_Witness ==
    \E p \in Procs :
        /\ op[p] = "updateCartItemQuantity"
        /\ result[p] = Fail("InsufficientStock")
        /\ \E r \in cart_items :
              products[r.product_id].stock_quantity < MaxQty /\ r.quantity = 1

\* C22: cart.remove and cart.removeMany delete exactly the lines that the
\* call names and the caller owns; naming an absent line or a line of another
\* buyer is no error; every other line stays as it is; a second run of the same
\* delete on the result removes nothing more.
C22_Remove ==
    [][\A p \in Procs :
        (pc[p] \in {"rm_delete", "rmm_delete"} /\ pc'[p] = "idle")
        => LET ids == IF pc[p] = "rm_delete" THEN {arg[p].cartItemId}
                      ELSE arg[p].cartItemIds
               mine == {r \in cart_items : r.clerk_id = userId[p] /\ r.id \in ids}
           IN
           /\ result'[p] \in {Ok("Removed"), Fail("StoreUnavailable")}
           /\ result'[p].success => cart_items' = cart_items \ mine
           /\ ~result'[p].success => cart_items' = cart_items
           /\ result'[p].success
              => DeleteCartItems(cart_items', userId[p], ids) = cart_items']_vars

\* C22 witness: cart.remove has succeeded although the line it named was not
\* the caller's: both lines the table can hold are still there.
C22_Witness ==
    \E p \in Procs :
        /\ op[p] = "removeCartItem"
        /\ result[p] = Ok("Removed")
        /\ nextCartId = 3
        /\ Cardinality(cart_items) = 2

\* C23: under any interleaving of order.transition, payment.confirm and
\* payment.cancel on one order, every status change written to the store is an
\* allowed edge from the status the order holds right before the write.
C23_WritesFollowEdges ==
    [][\A o \in DOMAIN orders :
          orders'[o].status # orders[o].status
          => <<orders[o].status, orders'[o].status>> \in AllowedEdges]_vars

\* C24: in every reachable state an order whose status is confirmed, shipped
\* or delivered has payment_status success.
C24_FulfilmentIsPaid ==
    \A o \in DOMAIN orders :
        orders[o].status \in {"confirmed", "shipped", "delivered"}
        => orders[o].payment_status = "success"

\* C25: payment.confirm sends its request to the gateway only while the
\* order it confirms is pending and unpaid; a confirm on an order whose
\* payment_status is success never reaches the gateway.
C25_GatewayOnlyWhileUnpaid ==
    [][\A p \in Procs :
        (pc[p] = "cp_fetch" /\ gatewayCalls' # gatewayCalls)
        => /\ orders[arg[p].orderId].status = "pending"
           /\ orders[arg[p].orderId].payment_status # "success"]_vars

\* order.build of worker q has written its order header and not yet returned
BuildInFlight(q) == pc[q] \in {"co_insertItems", "co_clearCart"}

\* C26: of two concurrent order.build calls of one buyer over the same cart
\* contents at most one creates an order: no build writes an order header
\* from a cart snapshot from which a concurrent build of the same buyer has
\* already written one.
C26_OneOrderPerCart ==
    [][\A p \in Procs : \A q \in Procs \ {p} :
        (/\ pc[p] = "co_insertOrder"
         /\ pc'[p] = "co_insertItems"
         /\ BuildInFlight(q)
         /\ userId[q] = userId[p])
        => loc[q].cartItems # loc[p].cartItems]_vars

\* C27: order.build removes from the cart only what it put into the order:
\* every cart row its clear deletes is a row of its cart snapshot, with the
\* quantity the snapshot (and so the order line) holds.
C27_ClearsOnlyWhatWasOrdered ==
    [][\A p \in Procs :
        (pc[p] = "co_clearCart" /\ pc'[p] # "co_clearCart")
        => \A r \in cart_items \ cart_items' :
              \E i \in DOMAIN loc[p].cartItems :
                 /\ loc[p].cartItems[i].id = r.id
                 /\ loc[p].cartItems[i].quantity = r.quantity]_vars

\* C28: when concurrent cart.add calls of one buyer for one product return
\* success, no increment is lost and the stock is not exceeded: every add
\* that succeeds on an existing line leaves it with the quantity the store
\* held right before the write plus the requested quantity, within the
\* product's stock.
C28_NoLostIncrement ==
    [][\A p \in Procs :
        (pc[p] = "add_update" /\ pc'[p] = "idle" /\ result'[p].success)
        => LET u == userId[p]
               x == arg[p].productId
           IN
           /\ QuantityIn(cart_items', u, x)
                 = QuantityIn(cart_items, u, x) + arg[p].quantity
           /\ QuantityIn(cart_items', u, x) <= products[x].stock_quantity]_vars

\* C29: cart.add compares existing + requested with the product's stock as
\* it is when the existing line is read: when the line's quantity plus the
\* requested quantity exceeds the stock the product has at that moment, the
\* add is refused there and the cart is not changed.
C29_FreshStock ==
    [][\A p \in Procs :
        (/\ pc[p] = "add_fetch"
         /\ pc'[p] # "add_fetch"
         /\ QuantityIn(cart_items, userId[p], arg[p].productId) > 0
         /\ QuantityIn(cart_items, userId[p], arg[p].productId) + arg[p].quantity
               > products[arg[p].productId].stock_quantity)
        => /\ pc'[p] = "idle"
           /\ ~result'[p].success
           /\ cart_items' = cart_items]_vars

\* C30: once an order is in the store no request and no catalog edit changes
\* its buyer, its total_amount or its shipping address, and its lines are
\* written once, by the build that created it, and never changed or deleted:
\* only the status and the payment fields are written.
C30_OrderFrame ==
    [][\A o \in DOMAIN orders :
        /\ o \in DOMAIN orders'
        /\ orders'[o].id = orders[o].id
        /\ orders'[o].clerk_id = orders[o].clerk_id
        /\ orders'[o].total_amount = orders[o].total_amount
        /\ orders'[o].shipping_address = orders[o].shipping_address
        /\ orders'[o].order_note = orders[o].order_note
        /\ LinesOf(o) \subseteq order_items'
        /\ \/ {l \in order_items' : l.order_id = o} = LinesOf(o)
           \/ \E p \in Procs :
                 /\ pc[p] = "co_insertItems"
                 /\ loc[p].orderId = o
                 /\ LinesOf(o) = {}]_vars

\* C30 witness: an order has been cancelled, the catalog price
\* of its product is no longer the price of its line, and the order still has
\* its line and its total.
C30_Witness ==
    \E o \in DOMAIN orders :
        /\ orders[o].status = "cancelled"
        /\ LinesOf(o) # {}
        /\ orders[o].total_amount = LineSum(LinesOf(o))
        /\ \E l \in LinesOf(o) : products[l.product_id].price # l.price

(***************************************************************************)
(* Specifications                                                          *)
(***************************************************************************)
Catalog ==
    \/ \E x \in DOMAIN products : SetPrice(x)
    \/ \E x \in DOMAIN products : SetStock(x)
    \/ \E x \in DOMAIN products : SetActive(x)
    \/ \E x \in DOMAIN products : Rename(x)

\* cart and checkout requests
Checkout(p) ==
    \/ addToCart(p)
    \/ add_getProduct(p)
    \/ add_fetch(p)
    \/ add_update(p)
    \/ add_insert(p)
    \/ createOrder(p)
    \/ co_getCartItems(p)
    \/ co_insertOrder(p)
    \/ co_insertItems(p)
    \/ co_clearCart(p)

\* cart.add requests
Adding(p) ==
    \/ addToCart(p)
    \/ add_getProduct(p)
    \/ add_fetch(p)
    \/ add_update(p)
    \/ add_insert(p)

\* cart.setQuantity, cart.remove and cart.removeMany requests
Editing(p) ==
    \/ updateCartItemQuantity(p)
    \/ uq_fetch(p)
    \/ uq_update(p)
    \/ removeCartItem(p)
    \/ rm_delete(p)
    \/ removeCartItems(p)
    \/ rmm_delete(p)

\* order.get requests
Reading(p) ==
    \/ getOrder(p)
    \/ go_select(p)
    \/ go_items(p)

\* order status and payment requests
Lifecycle(p) ==
    \/ updateOrderStatus(p)
    \/ us_select(p)
    \/ us_update(p)
    \/ requestPayment(p)
    \/ rp_getOrder(p)
    \/ confirmPayment(p)
    \/ cp_getOrder(p)
    \/ cp_fetch(p)
    \/ cp_update(p)
    \/ cancelPayment(p)
    \/ xp_getOrder(p)
    \/ xp_update(p)

\* One worker: requests are served one after another; catalog edits may fall
\* between any two round trips of a request.
Next == Catalog \/ Checkout(1) \/ Lifecycle(1)

Spec == Init /\ [][Next]_vars

\* The order lifecycle in depth: one worker, one buyer, a one-product catalog
\* that nobody edits.
NextLifecycle == Checkout(1) \/ Lifecycle(1)

SpecLifecycle == InitLifecycle /\ [][NextLifecycle]_vars

\* Checkout in depth: one worker, one buyer, the whole catalog and its edits,
\* no request on the orders once they are built.
NextCheckout == Catalog \/ Checkout(1)

SpecCheckout == InitCheckout /\ [][NextCheckout]_vars

\* Concurrent cart.add: two workers serve the buyer's requests, their round
\* trips interleave freely.
NextCartRace == Adding(1) \/ Adding(2)

SpecCartRace == InitCartRace /\ [][NextCartRace]_vars

\* Two buyers: one worker serves the requests of both, so that a request can
\* name an order of the other buyer.
NextAccess == Checkout(1) \/ Reading(1) \/ Lifecycle(1)

SpecAccess == InitAccess /\ [][NextAccess]_vars

\* The carts of two buyers: one worker serves their cart requests, the
\* catalog is edited in between.
NextCart == Catalog \/ Adding(1) \/ Editing(1)

SpecCart == InitCart /\ [][NextCart]_vars

\* Concurrent requests on one order: worker 1 fills the cart and builds the
\* order, then both workers serve status and payment requests whose round
\* trips interleave freely.
NextOrderRace == Checkout(1) \/ Lifecycle(1) \/ Lifecycle(2)

SpecOrderRace == InitOrderRace /\ [][NextOrderRace]_vars

\* Concurrent checkout: both workers serve cart.add and order.build requests
\* of the buyer.
NextBuildRace == Checkout(1) \/ Checkout(2)

SpecBuildRace == InitBuildRace /\ [][NextBuildRace]_vars

\* Every request of the buyer, served by one worker, and the catalog edits.
NextFrame == Catalog \/ Checkout(1) \/ Editing(1) \/ Reading(1) \/ Lifecycle(1)

SpecFrame == InitFrame /\ [][NextFrame]_vars

====
